---- MODULE Spec2Model ----
(***************************************************************************)
(* Model of 24_other_gender_external_cohort_bar_person.py: the pipeline    *)
(* that filters the individual-awards table, joins it with the awards and  *)
(* demographics tables, counts men and women per cohort and draws one      *)
(* stacked bar per cohort.                                                 *)
(*                                                                         *)
(* A table (DataFrame) is a sequence of records, one record per row, in    *)
(* row order.  A text cell is a TLA+ string, except award_role, which is a *)
(* sequence of characters because the script searches it for a substring.  *)
(* A missing cell (pandas NaN) of a text column is the cell read_csv       *)
(* parses as missing, "nan"; a cohort cell is <<>> when missing and <<c>>  *)
(* when it holds the number c, until astype(int) turns it into the plain   *)
(* integer c.  The column award_start_year is carried along by the script  *)
(* and never read; the list `genders` (lines 85-86) is computed and never  *)
(* used; both are left out.                                                *)
(***************************************************************************)
EXTENDS Integers, Sequences, FiniteSets, TLC

VARIABLES
    individual_awards_csv,  \* the rows of individual_awards.csv, as read
    level,                  \* 'person' or 'role'
    df_awards_i,            \* the participation table, filtered in place
    df_awards,              \* awards.csv, columns award_id and cohort
    df_dems,                \* individual_demographics.csv, person_id and gender
    df_master,              \* the working table
    cohorts,                \* sorted distinct cohorts of the working table
    df_q,                   \* the summary table, one row per cohort
    cum_sums,               \* per-cohort totals appended by get_vals
    values,                 \* the last array returned by get_vals
    bars,                   \* the plt.bar calls made so far, in call order
    texts,                  \* the plt.text calls made so far, in call order
    i,                      \* the x position of the next bar
    total,                  \* the n shown in the title
    written,                \* whether savefig has written the image
    pc                      \* the statement the script is about to execute

vars == <<individual_awards_csv, level, df_awards_i, df_awards, df_dems,
          df_master, cohorts, df_q, cum_sums, values, bars, texts, i, total,
          written, pc>>

----------------------------------------------------------------------------
(* Program constants *)

MIN == 1
MAX == 9
COLORS == <<"#1A85FF", "#D41159">>

(* Missing cells *)
NaN == "nan"
NaNRole == <<"n", "a", "n">>
NaNCohort == <<>>

(* The role strings the script names *)
PI == <<"p", "i">>
CO_PI == <<"c", "o", "-">> \o PI
FORMER_PI == <<"f", "o", "r", "m", "e", "r", " ">> \o PI
FORMER_CO_PI == <<"f", "o", "r", "m", "e", "r", " ">> \o CO_PI
INTERNAL == <<"i", "n", "t", "e", "r", "n", "a", "l">>

----------------------------------------------------------------------------
(* Bounds of the model and the input domains *)

MaxRoleRows == 2
MaxKeyRows == 3
MaxRows == 2
MaxCount == 7

Levels == {"person", "role"}
PersonIds == {1, 2}
AwardIds == {1, 2}
AwardTypes == {"it", "ot", NaN}
Genders == {"man", "woman", "other", NaN}
CohortCells == {NaNCohort, <<0>>, <<1>>, <<9>>, <<10>>}

MEMBER == <<"m", "e", "m", "b", "e", "r">>
Roles ==
    { PI, CO_PI, FORMER_PI, FORMER_CO_PI,
      INTERNAL \o <<" ", "x">>,                  \* "internal x"
      <<"s", "-">> \o INTERNAL,                  \* "s-internal"
      <<"I", "n", "t", "e", "r", "n", "a", "l">>, \* "Internal"
      <<"i", "n", "t", "e", "r", "n">>,          \* "intern"
      <<"s", "u", "b", " ">> \o PI,              \* "sub pi"
      NaNRole }

SeqsUpTo(S, n) == UNION { [1..k -> S] : k \in 0..n }

----------------------------------------------------------------------------
(* Lines 42-47: the filter *)

\* Series.str.contains(pat) for a pattern without regex metacharacters
str_contains(s, pat) ==
    \E k \in 0..(Len(s) - Len(pat)) : SubSeq(s, k + 1, k + Len(pat)) = pat

type_mask(row) == row.award_type = "it"

filter_type(df) == SelectSeq(df, type_mask)

\* role_mask without the "former pi" comparison
role_mask_no_former_pi(row) ==
    /\ row.award_role # PI
    /\ row.award_role # CO_PI
    /\ row.award_role # FORMER_CO_PI
    /\ ~ str_contains(row.award_role, INTERNAL)

role_mask(row) ==
    /\ row.award_role # PI
    /\ row.award_role # CO_PI
    /\ row.award_role # FORMER_PI
    /\ row.award_role # FORMER_CO_PI
    /\ ~ str_contains(row.award_role, INTERNAL)

filter_role(df) == SelectSeq(df, role_mask)

\* .str needs a text column and ~ needs a boolean mask: a column read as all
\* missing is a float column, and a missing role among the rows gives a mask
\* holding NaN, on which ~ raises TypeError
role_mask_raises(csv, df) ==
    \/ \E k \in 1..Len(df) : df[k].award_role = NaNRole
    \/ Len(csv) > 0 /\ \A k \in 1..Len(csv) : csv[k].award_role = NaNRole

(* Lines 50-51: deduplication *)

level_cols(lv) == IF lv = "person" THEN <<"person_id">> ELSE <<"person_id", "award_id">>

key_of(row, cols) == [c \in 1..Len(cols) |-> row[cols[c]]]

\* keep_first with keep='last': a later row replaces the retained one
keep_last(front, row, cols) ==
    SelectSeq(front, LAMBDA r : key_of(r, cols) # key_of(row, cols)) \o <<row>>

\* DataFrame.drop_duplicates(subset), keep='first'
keep_first(front, row, cols) ==
    IF \E j \in 1..Len(front) : key_of(front[j], cols) = key_of(row, cols)
    THEN front
    ELSE Append(front, row)

RECURSIVE drop_duplicates(_, _)
drop_duplicates(df, cols) ==
    IF df = <<>> THEN <<>>
    ELSE keep_first(drop_duplicates(SubSeq(df, 1, Len(df) - 1), cols), df[Len(df)], cols)

(* Lines 55-59: the working table, the left merge with awards, the cast *)

master_columns(df) ==
    [k \in 1..Len(df) |->
        [person_id |-> df[k].person_id, award_id |-> df[k].award_id,
         award_role |-> df[k].award_role]]

with_cohort(row, c) ==
    [person_id |-> row.person_id, award_id |-> row.award_id,
     award_role |-> row.award_role, cohort |-> c]

\* merge_awards with how='inner': unmatched rows are dropped
merge_awards_inner(left, right) ==
    LET out[k \in 0..Len(left)] ==
            IF k = 0 THEN <<>>
            ELSE LET row == left[k]
                     m == SelectSeq(right, LAMBDA a : a.award_id = row.award_id)
                 IN out[k - 1] \o [j \in 1..Len(m) |-> with_cohort(row, m[j].cohort)]
    IN out[Len(left)]

\* pd.merge(left, right, on='award_id', how='left')
merge_awards(left, right) ==
    LET out[k \in 0..Len(left)] ==
            IF k = 0 THEN <<>>
            ELSE LET row == left[k]
                     m == SelectSeq(right, LAMBDA a : a.award_id = row.award_id)
                 IN out[k - 1] \o
                    (IF m = <<>> THEN << with_cohort(row, NaNCohort) >>
                     ELSE [j \in 1..Len(m) |-> with_cohort(row, m[j].cohort)])
    IN out[Len(left)]

\* astype({'cohort': int}) raises on a missing value
astype_raises(df) == \E k \in 1..Len(df) : df[k].cohort = NaNCohort

astype_int(df) == [k \in 1..Len(df) |-> with_cohort(df[k], df[k].cohort[1])]

(* Line 62: the cohort range *)

\* cohort_mask without the upper end of the range
cohort_mask_no_max(row) == row.cohort >= MIN

cohort_mask(row) == row.cohort >= MIN /\ row.cohort <= MAX

filter_cohort(df) == SelectSeq(df, cohort_mask)

(* Line 65: the inner merge with demographics *)

with_gender(row, g) ==
    [person_id |-> row.person_id, award_id |-> row.award_id,
     award_role |-> row.award_role, cohort |-> row.cohort, gender |-> g]

\* pd.merge(left, right, on='person_id'), how='inner'
merge_dems(left, right) ==
    LET out[k \in 0..Len(left)] ==
            IF k = 0 THEN <<>>
            ELSE LET row == left[k]
                     m == SelectSeq(right, LAMBDA d : d.person_id = row.person_id)
                 IN out[k - 1] \o [j \in 1..Len(m) |-> with_gender(row, m[j].gender)]
    IN out[Len(left)]

(* Lines 73-91: the summary *)

\* get_q without the cohort condition
get_q_any_cohort(df, cohort, gender) ==
    Len(SelectSeq(df, LAMBDA r : r.gender = gender))

get_q(df, cohort, gender) ==
    Len(SelectSeq(df, LAMBDA r : r.cohort = cohort /\ r.gender = gender))

\* str(elem) != 'nan': the text of an integer is never 'nan'
no_nans(elem) == elem \in Int

\* Series.unique(): the distinct values in order of first appearance
add_unseen(seen, v) ==
    IF \E j \in 1..Len(seen) : seen[j] = v THEN seen ELSE Append(seen, v)

RECURSIVE unique(_)
unique(col) ==
    IF col = <<>> THEN <<>>
    ELSE add_unseen(unique(SubSeq(col, 1, Len(col) - 1)), col[Len(col)])

RECURSIVE sorted(_)
sorted(list) ==
    IF list = <<>> THEN <<>>
    ELSE LET m == CHOOSE k \in 1..Len(list) :
                    /\ \A j \in 1..Len(list) : list[k] <= list[j]
                    /\ \A j \in 1..(k - 1) : list[j] # list[k]
         IN <<list[m]>> \o
            sorted([j \in 1..(Len(list) - 1) |-> IF j < m THEN list[j] ELSE list[j + 1]])

\* get_cohorts without the sort
get_cohorts_unsorted(df) ==
    SelectSeq(unique([k \in 1..Len(df) |-> df[k].cohort]), no_nans)

get_cohorts(df) ==
    sorted(SelectSeq(unique([k \in 1..Len(df) |-> df[k].cohort]), no_nans))

q_row(df, cohort) ==
    [cohort |-> cohort, men |-> get_q(df, cohort, "man"),
     women |-> get_q(df, cohort, "woman")]

(* Lines 100-110: get_vals *)

\* df_q.loc[cohort, column] once cohort is the index
loc(q, cohort, column) ==
    (CHOOSE r \in { q[k] : k \in 1..Len(q) } : r.cohort = cohort)[column]

\* round that drops the fraction
round_down(num, den) == num \div den

\* round that sends a tie upwards
round_half_up(num, den) == (2 * num + den) \div (2 * den)

\* round(num / den) of Python 3: to the nearest integer, a tie to the even one
round(num, den) ==
    LET fl == num \div den
        rem == num % den
    IN IF 2 * rem < den THEN fl
       ELSE IF 2 * rem > den THEN fl + 1
       ELSE IF fl % 2 = 0 THEN fl ELSE fl + 1

\* get_vals that appends the men count instead of the cohort total
get_vals_men_only(q, cohort, sums) ==
    LET men_raw == loc(q, cohort, "men")
        women_raw == loc(q, cohort, "women")
        sum_raw == men_raw + women_raw
    IN [cum_sums |-> Append(sums, men_raw),
        values |-> IF sum_raw # 0
                   THEN << round(men_raw * 100, sum_raw),
                           round(women_raw * 100, sum_raw), men_raw, women_raw >>
                   ELSE << 0, 0, 0, 0 >>]

\* the returned array and the list cum_sums after the call
get_vals(q, cohort, sums) ==
    LET men_raw == loc(q, cohort, "men")
        women_raw == loc(q, cohort, "women")
        sum_raw == men_raw + women_raw
    IN [cum_sums |-> Append(sums, sum_raw),
        values |-> IF sum_raw # 0
                   THEN << round(men_raw * 100, sum_raw),
                           round(women_raw * 100, sum_raw), men_raw, women_raw >>
                   ELSE << 0, 0, 0, 0 >>]

(* Lines 113-120: plot_bar *)

add_running(head, v) == Append(head, (IF head = <<>> THEN 0 ELSE head[Len(head)]) + v)

RECURSIVE np_cumsum(_)
np_cumsum(arr) ==
    IF arr = <<>> THEN <<>>
    ELSE add_running(np_cumsum(SubSeq(arr, 1, Len(arr) - 1)), arr[Len(arr)])

Minimum(S) == CHOOSE x \in S : \A y \in S : x <= y

\* the plt.bar calls of one plot_bar(index, values), in call order
plot_bar(index, vals) ==
    LET values_perc == SubSeq(vals, 1, 2)
        values_raw == SubSeq(vals, 3, Len(vals))
        indices == [k \in 1..Len(vals) |-> index]
        cumsum_bottom_values == <<0>> \o SubSeq(np_cumsum(vals), 1, Len(vals) - 1)
        n == Minimum({Len(indices), Len(values_perc), Len(values_raw),
                      Len(cumsum_bottom_values), Len(COLORS)})
    IN [k \in 1..n |->
           [x |-> indices[k], height |-> values_perc[k],
            bottom |-> cumsum_bottom_values[k], color |-> COLORS[k],
            text |-> values_raw[k]]]

sum(list) == IF list = <<>> THEN 0 ELSE np_cumsum(list)[Len(list)]

----------------------------------------------------------------------------
(* The state after the three read_csv calls and the column selections *)

Loaded(csv, lv, awards, dems) ==
    /\ individual_awards_csv = csv
    /\ level = lv
    /\ df_awards_i = csv
    /\ df_awards = awards
    /\ df_dems = dems
    /\ df_master = <<>>
    /\ cohorts = <<>>
    /\ df_q = <<>>
    /\ cum_sums = <<>>
    /\ values = <<>>
    /\ bars = <<>>
    /\ texts = <<>>
    /\ i = 0
    /\ total = 0
    /\ written = FALSE
    /\ pc = "filter_type"

award_row(p, a, t, r) == [person_id |-> p, award_id |-> a, award_type |-> t, award_role |-> r]

\* tables keyed by identifier, in ascending identifier order
KeyedTables(ids, key, column, cells) ==
    { t \in SeqsUpTo([ {key} -> ids ] \X [ {column} -> cells ], Cardinality(ids)) :
        \A j, k \in 1..Len(t) : j < k => t[j][1][key] < t[k][1][key] }

AwardTables ==
    { [k \in 1..Len(t) |-> [award_id |-> t[k][1].award_id, cohort |-> t[k][2].cohort]] :
        t \in KeyedTables(AwardIds, "award_id", "cohort", CohortCells) }

DemTables ==
    { [k \in 1..Len(t) |-> [person_id |-> t[k][1].person_id, gender |-> t[k][2].gender]] :
        t \in KeyedTables(PersonIds, "person_id", "gender", Genders) }

\* Inputs that vary the award tables and the demographics
Init ==
    \E csv \in SeqsUpTo([person_id : PersonIds, award_id : AwardIds,
                         award_type : {"it"}, award_role : {MEMBER}], MaxRows),
       lv \in Levels, awards \in AwardTables, dems \in DemTables :
        Loaded(csv, lv, awards, dems)

\* Inputs that vary the award types and roles of one person's rows
InitRoles ==
    \E csv \in SeqsUpTo([person_id : {1}, award_id : {1},
                         award_type : AwardTypes, award_role : Roles], MaxRoleRows),
       lv \in Levels :
        Loaded(csv, lv, << [award_id |-> 1, cohort |-> <<1>>] >>,
               << [person_id |-> 1, gender |-> "man"] >>)

\* Inputs that vary the persons and awards of the rows
InitKeys ==
    \E csv \in SeqsUpTo([person_id : PersonIds, award_id : AwardIds,
                         award_type : {"it"}, award_role : {MEMBER, PI}], MaxKeyRows),
       lv \in Levels :
        Loaded(csv, lv,
               << [award_id |-> 1, cohort |-> <<1>>], [award_id |-> 2, cohort |-> <<9>>] >>,
               << [person_id |-> 1, gender |-> "man"], [person_id |-> 2, gender |-> "woman"] >>)

\* Inputs with many persons: block A holds mA men, wA women and oA others on
\* award 1, block B likewise on award 2; every row is a different person
block_gender(k, m, w) == IF k <= m THEN "man" ELSE IF k <= m + w THEN "woman" ELSE "other"

InitCounts ==
    \E mA \in 0..MaxCount, wA \in 0..MaxCount, oA \in 0..1,
       mB \in 0..1, wB \in 0..1, oB \in 0..1, rev \in BOOLEAN :
        LET nA == mA + wA + oA
            nB == mB + wB + oB
            gender_of(p) == IF p <= nA THEN block_gender(p, mA, wA)
                            ELSE block_gender(p - nA, mB, wB)
        IN Loaded([p \in 1..(nA + nB) |->
                      award_row(p, IF p <= nA THEN 1 ELSE 2, "it", MEMBER)],
                  "person",
                  << [award_id |-> 1, cohort |-> IF rev THEN <<9>> ELSE <<2>>],
                     [award_id |-> 2, cohort |-> IF rev THEN <<2>> ELSE <<9>>] >>,
                  [p \in 1..(nA + nB) |-> [person_id |-> p, gender |-> gender_of(p)]])

----------------------------------------------------------------------------
(* The statements of the script, one action each *)

rest_filter == <<individual_awards_csv, level, df_awards, df_dems, df_master,
                 cohorts, df_q, cum_sums, values, bars, texts, i, total, written>>
rest_master == <<individual_awards_csv, level, df_awards_i, df_awards, df_dems,
                 cohorts, df_q, cum_sums, values, bars, texts, i, total, written>>

\* line 42
FilterType ==
    /\ pc = "filter_type"
    /\ df_awards_i' = filter_type(df_awards_i)
    /\ pc' = "filter_role"
    /\ UNCHANGED rest_filter

\* lines 45-47
FilterRole ==
    /\ pc = "filter_role"
    /\ IF role_mask_raises(individual_awards_csv, df_awards_i)
       THEN pc' = "failed" /\ UNCHANGED df_awards_i
       ELSE pc' = "drop_duplicates" /\ df_awards_i' = filter_role(df_awards_i)
    /\ UNCHANGED rest_filter

\* lines 50-51
DropDuplicates ==
    /\ pc = "drop_duplicates"
    /\ df_awards_i' = drop_duplicates(df_awards_i, level_cols(level))
    /\ pc' = "merge_awards"
    /\ UNCHANGED rest_filter

\* lines 55-59
MergeAwards ==
    /\ pc = "merge_awards"
    /\ LET merged == merge_awards(master_columns(df_awards_i), df_awards)
       IN IF astype_raises(merged)
          THEN pc' = "failed" /\ df_master' = merged
          ELSE pc' = "filter_cohort" /\ df_master' = astype_int(merged)
    /\ UNCHANGED rest_master

\* line 62
FilterCohort ==
    /\ pc = "filter_cohort"
    /\ df_master' = filter_cohort(df_master)
    /\ pc' = "merge_dems"
    /\ UNCHANGED rest_master

\* line 65
MergeDems ==
    /\ pc = "merge_dems"
    /\ df_master' = merge_dems(df_master, df_dems)
    /\ pc' = "cohorts"
    /\ UNCHANGED rest_master

\* lines 70-86
Cohorts ==
    /\ pc = "cohorts"
    /\ cohorts' = get_cohorts(df_master)
    /\ df_q' = <<>>
    /\ pc' = "build_q"
    /\ UNCHANGED <<individual_awards_csv, level, df_awards_i, df_awards, df_dems,
                   df_master, cum_sums, values, bars, texts, i, total, written>>

\* lines 89-91, one iteration
AppendQ ==
    /\ pc = "build_q"
    /\ Len(df_q) < Len(cohorts)
    /\ df_q' = Append(df_q, q_row(df_master, cohorts[Len(df_q) + 1]))
    /\ UNCHANGED <<individual_awards_csv, level, df_awards_i, df_awards, df_dems,
                   df_master, cohorts, cum_sums, values, bars, texts, i, total,
                   written, pc>>

\* lines 94-128; a figure of width NUM_X * 1.6 = 0 is accepted by some
\* matplotlib versions and rejected by others
Figure ==
    /\ pc = "build_q"
    /\ Len(df_q) = Len(cohorts)
    /\ \E accepted \in BOOLEAN :
        /\ Len(cohorts) = 0 \/ accepted
        /\ pc' = IF accepted THEN "bars" ELSE "failed"
    /\ cum_sums' = <<>>
    /\ i' = 1
    /\ UNCHANGED <<individual_awards_csv, level, df_awards_i, df_awards, df_dems,
                   df_master, cohorts, df_q, values, bars, texts, total, written>>

\* lines 129-132, one iteration
Bar ==
    /\ pc = "bars"
    /\ i <= Len(cohorts)
    /\ LET got == get_vals(df_q, cohorts[i], cum_sums)
           drawn == plot_bar(i, got.values)
       IN /\ values' = got.values
          /\ cum_sums' = got.cum_sums
          /\ bars' = bars \o [k \in 1..Len(drawn) |->
                                [x |-> drawn[k].x, height |-> drawn[k].height,
                                 bottom |-> drawn[k].bottom, color |-> drawn[k].color]]
          /\ texts' = texts \o [k \in 1..Len(drawn) |->
                                  [x |-> drawn[k].x, text |-> drawn[k].text]]
    /\ i' = i + 1
    /\ UNCHANGED <<individual_awards_csv, level, df_awards_i, df_awards, df_dems,
                   df_master, cohorts, df_q, total, written, pc>>

\* lines 135-162
Title ==
    /\ pc = "bars"
    /\ i > Len(cohorts)
    /\ total' = sum(cum_sums)
    /\ pc' = "savefig"
    /\ UNCHANGED <<individual_awards_csv, level, df_awards_i, df_awards, df_dems,
                   df_master, cohorts, df_q, cum_sums, values, bars, texts, i, written>>

\* lines 164-165; an image of width 0 cannot be laid out or rendered by
\* every matplotlib version
SaveFig ==
    /\ pc = "savefig"
    /\ \E saved \in BOOLEAN :
        /\ Len(cohorts) = 0 \/ saved
        /\ written' = saved
        /\ pc' = IF saved THEN "done" ELSE "failed"
    /\ UNCHANGED <<individual_awards_csv, level, df_awards_i, df_awards, df_dems,
                   df_master, cohorts, df_q, cum_sums, values, bars, texts, i, total>>

Next ==
    \/ FilterType
    \/ FilterRole
    \/ DropDuplicates
    \/ MergeAwards
    \/ FilterCohort
    \/ MergeDems
    \/ Cohorts
    \/ AppendQ
    \/ Figure
    \/ Bar
    \/ Title
    \/ SaveFig

Spec == Init /\ [][Next]_vars
SpecRoles == InitRoles /\ [][Next]_vars
SpecKeys == InitKeys /\ [][Next]_vars
SpecCounts == InitCounts /\ [][Next]_vars

----------------------------------------------------------------------------
(* Vocabulary of the properties *)

Abs(n) == IF n < 0 THEN -n ELSE n

Rows(df) == 1..Len(df)

\* the role holds "internal" at some offset
HasInternal(role) ==
    \E off \in 0..(Len(role) - 8) : \A t \in 1..8 : role[off + t] = INTERNAL[t]

\* a participation row is an external non-PI member of an "it" award
Passes(row) ==
    /\ row.award_type = "it"
    /\ row.award_role \notin {PI, CO_PI, FORMER_PI, FORMER_CO_PI}
    /\ ~ HasInternal(row.award_role)

SameKey(r1, r2) ==
    /\ r1.person_id = r2.person_id
    /\ level = "role" => r1.award_id = r2.award_id

\* the first row of the input that passes the filter and has the key of row k
FirstWithKey(k) ==
    CHOOSE f \in 1..k :
        /\ Passes(individual_awards_csv[f])
        /\ SameKey(individual_awards_csv[f], individual_awards_csv[k])
        /\ \A g \in 1..(f - 1) :
              ~ (Passes(individual_awards_csv[g])
                 /\ SameKey(individual_awards_csv[g], individual_awards_csv[k]))

Counted(r) == df_master[r].gender \in {"man", "woman"}

RowsOfCohort(c) == { r \in Rows(df_master) : df_master[r].cohort = c }

CohortsPresent == { df_master[r].cohort : r \in Rows(df_master) }

KthSmallest(S, k) == CHOOSE c \in S : Cardinality({ d \in S : d < c }) = k - 1

SummaryRow(c) == CHOOSE q \in { df_q[k] : k \in Rows(df_q) } : q.cohort = c

RECURSIVE SumOfSummary(_)
SumOfSummary(q) ==
    IF q = <<>> THEN 0
    ELSE q[1].men + q[1].women + SumOfSummary(Tail(q))

\* p is num / den rounded to the nearest integer, a tie to the even neighbour
Nearest(p, num, den) ==
    /\ 2 * Abs(num - p * den) <= den
    /\ 2 * Abs(num - p * den) = den => p % 2 = 0

Filtering == {"filter_type", "filter_role", "drop_duplicates"}
Aggregating == {"cohorts", "build_q", "bars", "savefig", "done"}
Drawn == pc \in {"bars", "savefig", "done"} /\ i > 1

\* the award of row has no record in the awards table, or one without a cohort
NoCohort(row) ==
    \/ \A a \in Rows(df_awards) : df_awards[a].award_id # row.award_id
    \/ \E a \in Rows(df_awards) :
          df_awards[a].award_id = row.award_id /\ df_awards[a].cohort = NaNCohort

\* person p has a man/woman demographic record and a passing participation
\* record whose award has a cohort in [MIN, MAX]
Qualifies(p) ==
    /\ \E d \in Rows(df_dems) :
          df_dems[d].person_id = p /\ df_dems[d].gender \in {"man", "woman"}
    /\ \E k \in Rows(individual_awards_csv), a \in Rows(df_awards) :
          /\ individual_awards_csv[k].person_id = p
          /\ Passes(individual_awards_csv[k])
          /\ df_awards[a].award_id = individual_awards_csv[k].award_id
          /\ df_awards[a].cohort # NaNCohort
          /\ df_awards[a].cohort[1] >= MIN
          /\ df_awards[a].cohort[1] <= MAX

----------------------------------------------------------------------------
(* Properties *)

DedupKeepsFirst ==
    pc = "merge_awards" =>
        /\ \A a, b \in Rows(df_awards_i) :
              a # b => ~ SameKey(df_awards_i[a], df_awards_i[b])
        /\ \A k \in Rows(individual_awards_csv) :
              Passes(individual_awards_csv[k]) =>
                  \E j \in Rows(df_awards_i) :
                      /\ SameKey(df_awards_i[j], individual_awards_csv[k])
                      /\ df_awards_i[j] = individual_awards_csv[FirstWithKey(k)]

\* C2 witness: at level 'person' the first row of a person is filtered out and
\* the second of that person's two later rows, on another award, is dropped
DedupKeepsFirstWitness ==
    /\ pc = "merge_awards"
    /\ level = "person"
    /\ Len(individual_awards_csv) = 3
    /\ \A k \in 1..3 : individual_awards_csv[k].person_id = 1
    /\ individual_awards_csv[1].award_role = PI
    /\ individual_awards_csv[2].award_role = MEMBER
    /\ individual_awards_csv[3].award_role = MEMBER
    /\ individual_awards_csv[2].award_id # individual_awards_csv[3].award_id
    /\ df_awards_i = << individual_awards_csv[2] >>

\* C3: at level 'person', every person with a man/woman demographic record and
\* a passing participation record whose award has a cohort in [MIN, MAX] is
\* counted exactly once, whatever the order of the records.
PersonCountedOnce ==
    (level = "person" /\ pc \in Aggregating) =>
        \A p \in PersonIds :
            Qualifies(p) =>
                Cardinality({ r \in Rows(df_master) :
                                df_master[r].person_id = p /\ Counted(r) }) = 1

\* C4: when a row that survived the filter and the deduplication has an award
\* with no record or no cohort in the awards table, the run stops at the cast:
\* it reaches neither the cohort-range filter nor any later statement, and no
\* image is written.
UnmatchedAwardAborts ==
    (pc \notin Filtering /\ \E k \in Rows(df_awards_i) : NoCohort(df_awards_i[k])) =>
        /\ pc \in {"merge_awards", "failed"}
        /\ ~ written

\* C4 witness: the cast failed on a row whose person has no demographic
\* record, a row the inner join would have removed
UnmatchedAwardAbortsWitness ==
    /\ pc = "failed"
    /\ Len(df_master) = 1
    /\ df_master[1].cohort = NaNCohort
    /\ \A d \in Rows(df_dems) : df_dems[d].person_id # df_master[1].person_id

\* C5: for every cohort of the summary, men and women count disjoint sets of
\* working-table rows of that cohort, each count and their sum is at most the
\* number of rows of the cohort, and the sum equals it exactly when every row
\* of the cohort has gender "man" or "woman".
GenderExclusive ==
    \A k \in Rows(df_q) :
        LET of_cohort == RowsOfCohort(df_q[k].cohort)
            men_rows == { r \in of_cohort : df_master[r].gender = "man" }
            women_rows == { r \in of_cohort : df_master[r].gender = "woman" }
            n == Cardinality(of_cohort)
        IN /\ men_rows \cap women_rows = {}
           /\ df_q[k].men = Cardinality(men_rows)
           /\ df_q[k].women = Cardinality(women_rows)
           /\ df_q[k].men <= n
           /\ df_q[k].women <= n
           /\ df_q[k].men + df_q[k].women <= n
           /\ (df_q[k].men + df_q[k].women = n) <=> (\A r \in of_cohort : Counted(r))

\* C5 witness: a cohort with one man and one row of missing gender
GenderExclusiveWitness ==
    \E k \in Rows(df_q) :
        /\ df_q[k].men = 1
        /\ df_q[k].women = 0
        /\ Cardinality(RowsOfCohort(df_q[k].cohort)) = 2
        /\ \E r \in RowsOfCohort(df_q[k].cohort) : df_master[r].gender = NaN

\* C6: the array get_vals returned for the last cohort drawn is (0, 0, 0, 0)
\* when men_raw + women_raw = 0, and otherwise holds each count's percentage
\* of the sum rounded to the nearest integer together with the unchanged raw
\* counts; 3 and 1 give 75 and 25.  (SpecCounts)
PercentagePolicy ==
    Drawn =>
        LET q == SummaryRow(cohorts[i - 1])
            sum_raw == q.men + q.women
        IN /\ sum_raw = 0 => values = <<0, 0, 0, 0>>
           /\ sum_raw # 0 =>
                 /\ Len(values) = 4
                 /\ Nearest(values[1], 100 * q.men, sum_raw)
                 /\ Nearest(values[2], 100 * q.women, sum_raw)
                 /\ values[3] = q.men
                 /\ values[4] = q.women
           /\ (q.men = 3 /\ q.women = 1) => values = <<75, 25, 3, 1>>

\* C6 witness: a run that drew a 3/1 cohort as 75/25 and then a cohort whose
\* only row has another gender as 0/0
PercentagePolicyWitness ==
    /\ pc = "done"
    /\ values = <<0, 0, 0, 0>>
    /\ Len(bars) = 4
    /\ bars[1].height = 75
    /\ bars[2].height = 25
    /\ texts[1].text = 3
    /\ texts[2].text = 1

\* C7 as stated: there are counts with men_raw + women_raw > 0, within the
\* range of counts a cohort of the model can have, for which get_vals returns
\* two percentages that do not sum to 100; stated of every state in which
\* get_vals has been called.  (SpecCounts)
RoundingNonAdditive ==
    Drawn =>
        \E m \in 0..MaxCount, w \in 0..MaxCount :
            /\ m + w > 0
            /\ LET v == get_vals(<< [cohort |-> MIN, men |-> m, women |-> w] >>,
                                 MIN, cum_sums).values
               IN v[1] + v[2] # 100

\* C7 as amended: each segment's height is its own count's percentage rounded
\* to the nearest integer, a tie to the even one, nothing is normalised
\* afterwards, and the two heights of a bar with men_raw + women_raw > 0 sum
\* to exactly 100.  (SpecCounts)
PercentagesSumTo100 ==
    \A k \in 1..(Len(bars) \div 2) :
        LET men_raw == texts[2 * k - 1].text
            women_raw == texts[2 * k].text
        IN men_raw + women_raw > 0 =>
              /\ Nearest(bars[2 * k - 1].height, 100 * men_raw, men_raw + women_raw)
              /\ Nearest(bars[2 * k].height, 100 * women_raw, men_raw + women_raw)
              /\ bars[2 * k - 1].height + bars[2 * k].height = 100

\* C7 witness: a bar of 1 man and 7 women, both percentages at a tie (12.5, 87.5)
PercentagesSumTo100Witness ==
    \E k \in 1..(Len(bars) \div 2) :
        /\ texts[2 * k - 1].text = 1
        /\ texts[2 * k].text = 7
        /\ bars[2 * k - 1].height = 12
        /\ bars[2 * k].height = 88

\* C8: the n of the title is the sum over the summary's cohorts of
\* men + women, accumulated once per cohort; it is at most the number of rows
\* of the working table and smaller when a row has a gender other than "man"
\* or "woman".  (SpecCounts)
DisplayedTotal ==
    pc \in {"savefig", "done"} =>
        /\ total = SumOfSummary(df_q)
        /\ Len(cum_sums) = Len(cohorts)
        /\ \A k \in Rows(cum_sums) :
              cum_sums[k] = SummaryRow(cohorts[k]).men + SummaryRow(cohorts[k]).women
        /\ total = Cardinality({ r \in Rows(df_master) : Counted(r) })
        /\ total <= Len(df_master)
        /\ (\E r \in Rows(df_master) : ~ Counted(r)) => total < Len(df_master)

\* C8 witness: two cohorts drawn, a row of another gender left out of n
DisplayedTotalWitness ==
    /\ pc = "done"
    /\ Len(cohorts) = 2
    /\ total > 2
    /\ total < Len(df_master)

\* C9: once the aggregation stage is reached every row of the working table
\* has 1 <= cohort <= 9, and so has every cohort of the list, of the summary
\* and of the axis.
CohortRange ==
    /\ MIN = 1
    /\ MAX = 9
    /\ pc \in Aggregating =>
          \A r \in Rows(df_master) : df_master[r].cohort \in MIN..MAX
    /\ \A k \in Rows(cohorts) : cohorts[k] \in MIN..MAX
    /\ \A k \in Rows(df_q) : df_q[k].cohort \in MIN..MAX

\* C9 witness: of two rows, the one of cohort 10 was removed and the one of
\* cohort 9 was drawn
CohortRangeWitness ==
    /\ pc = "done"
    /\ Len(df_awards_i) = 2
    /\ cohorts = <<9>>
    /\ \E a \in Rows(df_awards) : df_awards[a].cohort = <<10>>

\* C10: the summary has one row, and the finished chart one bar, per distinct
\* cohort of the working table; cohorts are taken in strictly ascending order,
\* the k-th smallest at x position k, and in each bar the men segment starts at
\* 0 and the women segment at the height of the men segment.
SummaryAndBarOrder ==
    /\ pc \in {"bars", "savefig", "done"} =>
          /\ Len(df_q) = Cardinality(CohortsPresent)
          /\ { df_q[k].cohort : k \in Rows(df_q) } = CohortsPresent
    /\ pc \in {"savefig", "done"} => Len(bars) = 2 * Cardinality(CohortsPresent)
    /\ \A j, k \in Rows(cohorts) : j < k => cohorts[j] < cohorts[k]
    /\ Len(bars) = Len(texts)
    /\ \A k \in 1..(Len(bars) \div 2) :
          LET q == SummaryRow(KthSmallest(CohortsPresent, k))
          IN /\ bars[2 * k - 1].x = k
             /\ bars[2 * k].x = k
             /\ bars[2 * k - 1].bottom = 0
             /\ bars[2 * k].bottom = bars[2 * k - 1].height
             /\ bars[2 * k - 1].color = COLORS[1]
             /\ bars[2 * k].color = COLORS[2]
             /\ texts[2 * k - 1].text = q.men
             /\ texts[2 * k].text = q.women

\* C10 witness: the working table lists cohort 9 before cohort 1, with
\* different counts, and both bars are drawn
SummaryAndBarOrderWitness ==
    /\ pc = "done"
    /\ Len(df_master) = 2
    /\ df_master[1].cohort = 9
    /\ df_master[2].cohort = 1
    /\ df_master[1].gender = "woman"
    /\ df_master[2].gender = "man"
    /\ Len(bars) = 4

====
